---- MODULE Spec2Model ----
(***************************************************************************)
(* LuminOrderApp (src/src/LuminOrderApp.cpp): a movie's frames are         *)
(* measured for mean brightness (pass 1), sorted by rounded brightness,    *)
(* the order is stored in offsets.txt, and the frames are written to       *)
(* output.mov in that order (pass 2).                                      *)
(*                                                                         *)
(* Numbers.  A double brightness is modelled by its value truncated to 7   *)
(* decimals, as an integer count of 1e-7 (BrightnessUnits per 1.0).  With  *)
(* that reading round(x / ROUND_TO) and printf("%f") are exact functions   *)
(* of the integer, and the narrowing to float done by fscanf("%f") is the  *)
(* loss of at most one unit.  NaN stands for the one value that is not a   *)
(* number; every comparison with it, != excepted, is false.                *)
(***************************************************************************)
EXTENDS Integers, Sequences, FiniteSets, TLC

\* ------------------------------------------------------------------ bounds
MaxJobs == 2            \* file drops in one run of the process
MaxStartFrame == 1      \* largest START_FRAME the build is configured with
NumPaths == 2           \* distinct movie files that can be dropped
MaxLen == 4             \* longest table handed to the sort on its own
MaxFileLen == 3         \* most lines of an offsets.txt that is read
MaxLoaded == 4          \* records after which a read is followed no further

\* --------------------------------------------------------------- constants
BrightnessUnits == 10000000     \* model units per 1.0 of a double brightness
ROUND_TO == 100000              \* 10e-3, in model units
MicroUnits == 10                \* model units per 1e-6, the "%f" precision
NaN == -1                       \* the double 0.0 / 0: not a number

\* ---------------------------------------------------------- pure functions
\* Round with the fraction cut off instead: floor(x / q).
RoundDown(x, q) == x \div q

\* C round(x / q) for x >= 0: nearest integer, halves away from zero.
Round(x, q) == (2 * x + q) \div (2 * q)

FrameData(index, brightness) == [mIndex |-> index, mBrightness |-> brightness]

\* FrameBrightnessSort without the rounding: plain brightness, then index.
FrameBrightnessSortUnrounded(a, b) ==
    IF a.mBrightness # b.mBrightness THEN a.mBrightness < b.mBrightness
                                     ELSE a.mIndex < b.mIndex

\* FrameBrightnessSort without the comparison of the indices.
FrameBrightnessSortNoTieBreak(a, b) ==
    LET roundA == Round(a.mBrightness, ROUND_TO) * ROUND_TO
        roundB == Round(b.mBrightness, ROUND_TO) * ROUND_TO
    IN  roundA < roundB

\* FrameBrightnessSort (lines 88-97): rounded brightness, then index.
\* With a NaN on either side roundA != roundB is true and roundA < roundB is
\* false.
FrameBrightnessSort(a, b) ==
    LET roundA == Round(a.mBrightness, ROUND_TO) * ROUND_TO
        roundB == Round(b.mBrightness, ROUND_TO) * ROUND_TO
    IN  IF a.mBrightness = NaN \/ b.mBrightness = NaN THEN FALSE
        ELSE IF roundA # roundB THEN roundA < roundB
                                ELSE a.mIndex < b.mIndex

\* The sequence s without its k-th element.
RemoveAt(s, k) == [j \in 1..(Len(s) - 1) |-> IF j < k THEN s[j] ELSE s[j + 1]]

\* Every arrangement of the elements of the sequence s.
Arrangements(s) ==
    {[k \in 1..Len(s) |-> s[p[k]]] :
        p \in {q \in [1..Len(s) -> 1..Len(s)] :
                 \A j, k \in 1..Len(s) : q[j] = q[k] => j = k}}

\* std::sort(begin, end, comp): every arrangement of the elements in which
\* no element is preceded by one that comp places after it.  Elements that
\* comp does not order may come out in any order (std::sort is not stable).
\* With a NaN among the records comp is not a strict weak ordering and the
\* behaviour of std::sort is undefined: any arrangement may come out.
RECURSIVE StdSort(_)
StdSort(s) ==
    IF s = <<>> THEN {<<>>}
    ELSE IF \E k \in 1..Len(s) : s[k].mBrightness = NaN THEN Arrangements(s)
    ELSE LET least == {k \in 1..Len(s) :
                         \A j \in 1..Len(s) : ~FrameBrightnessSort(s[j], s[k])}
         IN  UNION {{<<s[k]>> \o r : r \in StdSort(RemoveAt(s, k))} : k \in least}

\* printf("%f", brightness): the decimal with 6 fractional digits nearest to
\* the double; the result is a count of 1e-6.
\* A NaN is printed as "nan".
PrintF(brightness) ==
    IF brightness = NaN THEN NaN
    ELSE (brightness + (MicroUnits \div 2)) \div MicroUnits

\* 2^e
RECURSIVE Pow2(_)
Pow2(e) == IF e = 0 THEN 1 ELSE 2 * Pow2(e - 1)

\* 2^e modulo m
RECURSIVE Pow2Mod(_, _)
Pow2Mod(e, m) == IF e = 0 THEN 1 % m ELSE (2 * Pow2Mod(e - 1, m)) % m

\* The least e >= 0 with micro * 2^e >= 10^6, for 0 < micro <= 10^6: the
\* float nearest to micro / 10^6 is a multiple of 2^-(e + 23) (a float has
\* a 24 bit significand).
RECURSIVE FloatExp(_, _)
FloatExp(micro, e) ==
    IF micro * Pow2(e) >= 1000000 THEN e ELSE FloatExp(micro, e + 1)

\* TRUE when the float nearest to micro / 10^6 lies below it.  The scaled
\* significand micro * 2^(e + 23) / 10^6 = micro * 2^(e + 17) / 5^6 is
\* rounded to the nearest integer: down when its fractional part, which is
\* (micro * 2^(e + 17) mod 5^6) / 5^6, is under a half.
FloatBelow(micro) ==
    IF micro = 0 THEN FALSE
    ELSE LET e == FloatExp(micro, 0)
             frac == ((micro % 15625) * Pow2Mod(e + 17, 15625)) % 15625
         IN  frac # 0 /\ 2 * frac < 15625

\* fscanf("%f", &brightness) followed by FrameData(offset, brightness): the
\* decimal is narrowed to float and widened to double.
\* "nan" is read as a NaN.
ScanF(micro) ==
    IF micro = NaN THEN NaN
    ELSE micro * MicroUnits - (IF FloatBelow(micro) THEN 1 ELSE 0)

\* The lines "%d,%f\n" that sortMovie prints for a table.
OffsetLines(table) ==
    [k \in 1..Len(table) |->
        [offset |-> table[k].mIndex, brightness |-> PrintF(table[k].mBrightness)]]

\* The records loadBrightnessFile appends for a well-formed file.
LoadedRecords(lines) ==
    [k \in 1..Len(lines) |-> FrameData(lines[k].offset, ScanF(lines[k].brightness))]

Indices(table) == [k \in 1..Len(table) |-> table[k].mIndex]

\* ------------------------------------------------------------------ movies
\* A Surface8u: its size and its pixels, line by line.
Surface(w, h, px) == [width |-> w, height |-> h, pixels |-> px]
Pixel(r, g, b) == [r |-> r, g |-> g, b |-> b]
Uniform(v) == Surface(1, 1, <<Pixel(v, v, v)>>)

\* The movie files that can be dropped, by path: the frames of each.
\* Path 1 is a white frame followed by a mid-grey one; path 2 has two
\* frames of nearly equal brightness, the later one the darker; any other
\* path is a frame of no area followed by a black one.
Paths == 1..NumPaths
Movie(p) ==
    CASE p = 1 -> <<Uniform(255), Uniform(128)>>
      [] p = 2 -> <<Surface(2, 1, <<Pixel(128, 128, 128), Pixel(127, 128, 129)>>),
                    Uniform(127)>>
      [] OTHER -> <<Surface(0, 0, <<>>), Uniform(0)>>

\* Sum of (r + g + b) over the pixels, as the two loops over iter visit them.
RECURSIVE ChannelSum(_)
ChannelSum(px) ==
    IF px = <<>> THEN 0
    ELSE px[1].r + px[1].g + px[1].b + ChannelSum(Tail(px))

\* The mean brightness processNextFrame computes for a surface:
\* sum of (r+g+b)/(3*255), divided by width * height; in model units,
\* by long division (the sum is at most 765 * width * height).  A surface
\* of no area has no pixels: the sum 0.0 is divided by 0, which is a NaN.
MeanBrightness(surface) ==
    LET sum == ChannelSum(surface.pixels)
        d   == 3 * 255 * (surface.width * surface.height)
        r0  == sum % d
        q1  == (r0 * 10000) \div d
        r1  == (r0 * 10000) % d
    IN  IF surface.width * surface.height = 0 THEN NaN
        ELSE (sum \div d) * BrightnessUnits + q1 * 1000 + (r1 * 1000) \div d

\* ------------------------------------------------------------------- state
Jobs == 1..MaxJobs

VARIABLES
    START_FRAME,    \* the configured #define START_FRAME
    mMoviePath,     \* path of the last dropped file, 0 when empty
    mMovie,         \* the qtime::MovieSurface: Null, or path and current frame
    mFrameData,     \* vector<FrameData>
    mFrameIndex,
    mSorted,
    mSaved,
    mInfoText,
    mFrameSurface,  \* NoSurface, or the frame the surface was decoded from
    pc,             \* per job: position of its thread in loadMovieFile
    i,              \* per job: loop counter of processAllFrames
    iter,           \* per job: position of saveMovie's iterator in mFrameData
    opened,         \* per job: the path its MovieSurface was opened on, or 0
    sink,           \* per job: frames added to its MovieWriter
    sinkOpen,       \* per job: its MovieWriter was created (output.mov exists)
    offsetsFile,    \* the lines of offsets.txt on disk
    sidecar,        \* per job: the lines it wrote to offsets.txt
    wroteOffsets,   \* per job: it has opened offsets.txt for writing
    failedIn,       \* per job: the phase in which an exception was thrown
    crashed,        \* the process died on a null or dangling access
    concurrent,     \* a file was dropped while a thread was running
    storing,        \* the store a thread has begun: job, pc, i, iter at its start
    shown,          \* what the last draw() read
    cancel,         \* the cancellation asked for: job, frames it had done
    fd,             \* loadBrightnessFile: the lines of the file it reads
    fpos,           \* ... number of lines fscanf has consumed
    loadOffset,     \* ... its local int offset
    loadBrightness, \* ... its local float brightness
    lpc,            \* ... position: "off", "read", "closed"
    table,      \* sort on its own: the table before the sort
    sorted,     \* ... after std::sort
    file,       \* ... the lines written to offsets.txt
    loaded,     \* ... the table read back from the file
    resorted,   \* ... the table read back, sorted again
    step        \* ... position: "start", "sorted", "written", "loaded", "resorted"

appVars == <<START_FRAME, mMoviePath, mMovie, mFrameData, mFrameIndex, mSorted,
             mSaved, mInfoText, mFrameSurface, pc, i, iter, opened, sink,
             sinkOpen, offsetsFile, sidecar, wroteOffsets, failedIn, crashed,
             concurrent>>
loadVars == <<fd, fpos, loadOffset, loadBrightness, lpc>>
obsVars == <<storing, shown, cancel, loadVars>>
sortVars == <<table, sorted, file, loaded, resorted, step>>
vars == <<appVars, obsVars, sortVars>>

Null == [path |-> 0, frame |-> 0]
NoSurface == [path |-> 0, frame |-> 0]

\* setup(), and the members the constructor leaves as they are.  mFrameIndex
\* is not initialised; nothing reads it before processAllFrames sets it.
setup ==
    /\ mMoviePath = 0
    /\ mMovie = Null
    /\ mFrameData = <<>>
    /\ mFrameIndex = 0
    /\ mSorted = FALSE
    /\ mSaved = FALSE
    /\ mInfoText = "Drag a movie file here"
    /\ mFrameSurface = NoSurface
    /\ pc = [w \in Jobs |-> "idle"]
    /\ i = [w \in Jobs |-> 0]
    /\ iter = [w \in Jobs |-> 0]
    /\ opened = [w \in Jobs |-> 0]
    /\ sink = [w \in Jobs |-> <<>>]
    /\ sinkOpen = [w \in Jobs |-> FALSE]
    /\ offsetsFile = <<>>
    /\ sidecar = [w \in Jobs |-> <<>>]
    /\ wroteOffsets = [w \in Jobs |-> FALSE]
    /\ failedIn = [w \in Jobs |-> "none"]
    /\ crashed = FALSE
    /\ concurrent = FALSE

\* Nothing stored, drawn or asked for yet.
ObserverIdle ==
    /\ storing = <<0, "idle", 0, 0>>
    /\ shown = [text |-> "", surface |-> NoSurface, saved |-> FALSE,
                duringStore |-> FALSE]
    /\ cancel = [job |-> 0, done |-> 0]

\* loadBrightnessFile has not been called.
LoadIdle ==
    /\ fd = <<>>
    /\ fpos = 0
    /\ loadOffset = 0
    /\ loadBrightness = 0
    /\ lpc = "off"

SortIdle ==
    /\ table = <<>>
    /\ sorted = <<>>
    /\ file = <<>>
    /\ loaded = <<>>
    /\ resorted = <<>>
    /\ step = "off"

Init ==
    /\ START_FRAME \in 0..MaxStartFrame
    /\ setup
    /\ ObserverIdle
    /\ LoadIdle
    /\ SortIdle

\* ------------------------------------------------------- the job threads
getNumFrames == Len(Movie(mMovie.path))

\* The frame a seek or a step leaves the movie at: the last frame when the
\* request lies past the end.
ClampFrame(k) == IF k < getNumFrames THEN k ELSE getNumFrames - 1

\* The surface mMovie.getSurface() returns: the movie's current frame.
getSurface == [path |-> mMovie.path, frame |-> mMovie.frame]
Pixels(surface) == Movie(surface.path)[surface.frame + 1]

\* Continue with saveMovie called before sortMovie.
ContinueSaveFirst(p) ==
    CASE p = "open"   -> "seek"
      [] p = "seek"   -> "loop1"
      [] p = "loop1"  -> "save"
      [] p = "save"   -> "loop2"
      [] p = "loop2"  -> "sort"
      [] p = "sort"   -> "done"
      [] OTHER        -> p

\* The statement loadMovieFile runs after the statement at position p
\* returns normally (lines 179-194).
Continue(p) ==
    CASE p = "open"   -> "seek"
      [] p = "seek"   -> "loop1"
      [] p = "loop1"  -> "sort"
      [] p = "sort"   -> "save"
      [] p = "save"   -> "loop2"
      [] p = "loop2"  -> "done"
      [] OTHER        -> p

\* The phase a position belongs to.
Phase(p) ==
    CASE p = "idle"   -> "Idle"
      [] p = "open"   -> "Loading"
      [] p \in {"seek", "loop1"} -> "Analyzing"
      [] p = "sort"   -> "Sorting"
      [] p \in {"save", "loop2"} -> "Writing"
      [] p = "done"   -> "Done"
      [] OTHER        -> "Failed"

\* The thread of job w is inside loadMovieFile.
Running(w) == pc[w] \notin {"idle", "done", "failed"}

\* Catch without the mMovie.reset().
CatchKeepMovie(w) ==
    /\ pc' = [pc EXCEPT ![w] = "failed"]
    /\ failedIn' = [failedIn EXCEPT ![w] = Phase(pc[w])]
    /\ mMovie' = mMovie

\* Catch that takes the job for finished.
CatchAsDone(w) ==
    /\ pc' = [pc EXCEPT ![w] = "done"]
    /\ failedIn' = [failedIn EXCEPT ![w] = Phase(pc[w])]
    /\ mMovie' = Null

\* Catch inside the loops: the thread goes on where it was.
CatchAndRetry(w) ==
    /\ pc' = pc
    /\ failedIn' = [failedIn EXCEPT ![w] = Phase(pc[w])]
    /\ mMovie' = mMovie

\* catch(...) in loadMovieFile: the thread ends, the movie is released.
Catch(w) ==
    /\ pc' = [pc EXCEPT ![w] = "failed"]
    /\ failedIn' = [failedIn EXCEPT ![w] = Phase(pc[w])]
    /\ mMovie' = Null

\* A call through the empty mMovie, or through an iterator into a vector
\* that another thread has reallocated: the process dies.
Crash ==
    /\ crashed' = TRUE
    /\ UNCHANGED <<START_FRAME, mMoviePath, mMovie, mFrameData, mFrameIndex,
                   mSorted, mSaved, mInfoText, mFrameSurface, pc, i, iter,
                   opened, sink, sinkOpen, offsetsFile, sidecar, wroteOffsets,
                   failedIn, concurrent, obsVars, sortVars>>

\* fileDrop: store the path and start a thread on loadMovieFile.  The
\* thread object of an earlier drop is let go of, running or not.
fileDrop(p) ==
    /\ ~crashed
    /\ \E w \in Jobs :
         /\ pc[w] = "idle"
         /\ \A v \in Jobs : v < w => pc[v] # "idle"
         /\ pc' = [pc EXCEPT ![w] = "open"]
    /\ mMoviePath' = p
    /\ concurrent' = (concurrent \/ \E v \in Jobs : Running(v))
    /\ UNCHANGED <<START_FRAME, mMovie, mFrameData, mFrameIndex, mSorted, mSaved,
                   mInfoText, mFrameSurface, i, iter, opened, sink, sinkOpen,
                   offsetsFile, sidecar, wroteOffsets, failedIn, crashed, obsVars, sortVars>>

\* loadMovieFile, lines 179-188: open the movie at mMoviePath.
loadMovieFile(w) ==
    /\ ~crashed
    /\ pc[w] = "open"
    /\ mInfoText' = "Opening file..."
    /\ \E ok \in BOOLEAN :
         IF ok
         THEN /\ mMovie' = [path |-> mMoviePath, frame |-> 0]
              /\ opened' = [opened EXCEPT ![w] = mMoviePath]
              /\ pc' = [pc EXCEPT ![w] = Continue("open")]
              /\ UNCHANGED failedIn
         ELSE /\ Catch(w)
              /\ UNCHANGED opened
    /\ UNCHANGED <<START_FRAME, mMoviePath, mFrameData, mFrameIndex, mSorted,
                   mSaved, mFrameSurface, i, iter, sink, sinkOpen, offsetsFile,
                   sidecar, wroteOffsets, crashed, concurrent, obsVars, sortVars>>

\* processAllFrames, lines 237-240: seek to START_FRAME, reset the counters.
processAllFrames(w) ==
    /\ ~crashed
    /\ pc[w] = "seek"
    /\ IF mMovie = Null THEN Crash
       ELSE /\ \E ok \in BOOLEAN :
                 IF ok
                 THEN /\ mMovie' = [mMovie EXCEPT !.frame = ClampFrame(START_FRAME)]
                      /\ mFrameIndex' = START_FRAME
                      /\ i' = [i EXCEPT ![w] = 0]
                      /\ pc' = [pc EXCEPT ![w] = Continue("seek")]
                      /\ UNCHANGED failedIn
                 ELSE /\ Catch(w)
                      /\ UNCHANGED <<mFrameIndex, i>>
            /\ UNCHANGED <<START_FRAME, mMoviePath, mFrameData, mSorted, mSaved,
                           mInfoText, mFrameSurface, iter, opened, sink, sinkOpen,
                           offsetsFile, sidecar, wroteOffsets, crashed, concurrent, obsVars, sortVars>>

\* Some other thread is walking mFrameData with saveMovie's iterator.
Iterating(w) == \E v \in Jobs : v # w /\ pc[v] = "loop2"

\* One pass of the loop of processAllFrames (lines 242-255) with its call
\* of processNextFrame (lines 262-294).  fail names the adapter call that
\* throws, if any.
processNextFrame(w) ==
    /\ ~crashed
    /\ pc[w] = "loop1"
    /\ IF mMovie = Null THEN Crash
       ELSE /\ i[w] < getNumFrames - START_FRAME
            /\ \E fail \in {"none", "getSurface", "stepForward", "realloc"} :
                 LET surface == getSurface
                     brightness == MeanBrightness(Pixels(surface))
                     data == FrameData(mFrameIndex, brightness)
                 IN  CASE fail = "getSurface" ->
                            /\ Catch(w)
                            /\ UNCHANGED <<mFrameSurface, mFrameData, mFrameIndex,
                                           mInfoText, i, crashed>>
                       [] fail = "stepForward" ->
                            /\ mFrameSurface' = surface
                            /\ mFrameData' = Append(mFrameData, data)
                            /\ mFrameIndex' = mFrameIndex + 1
                            /\ Catch(w)
                            /\ UNCHANGED <<mInfoText, i, crashed>>
                       [] fail = "realloc" ->
                            \* push_back moves the vector under an iterator
                            /\ Iterating(w)
                            /\ mFrameSurface' = surface
                            /\ mFrameData' = Append(mFrameData, data)
                            /\ crashed' = TRUE
                            /\ UNCHANGED <<mMovie, mFrameIndex, mInfoText, i, pc,
                                           failedIn>>
                       [] OTHER ->
                            /\ mFrameSurface' = surface
                            /\ mFrameData' = Append(mFrameData, data)
                            /\ mFrameIndex' = mFrameIndex + 1
                            /\ mMovie' = [mMovie EXCEPT !.frame = ClampFrame(mMovie.frame + 1)]
                            /\ mInfoText' = "Processing"
                            /\ i' = [i EXCEPT ![w] = i[w] + 1]
                            /\ UNCHANGED <<pc, failedIn, crashed>>
            /\ UNCHANGED <<START_FRAME, mMoviePath, mSorted, mSaved, iter, opened,
                           sink, sinkOpen, offsetsFile, sidecar, wroteOffsets,
                           concurrent, obsVars, sortVars>>

\* The loop of processAllFrames ends (line 242).
endProcessAllFrames(w) ==
    /\ ~crashed
    /\ pc[w] = "loop1"
    /\ IF mMovie = Null THEN Crash
       ELSE /\ ~(i[w] < getNumFrames - START_FRAME)
            /\ pc' = [pc EXCEPT ![w] = Continue("loop1")]
            /\ UNCHANGED <<START_FRAME, mMoviePath, mMovie, mFrameData, mFrameIndex,
                           mSorted, mSaved, mInfoText, mFrameSurface, i, iter,
                           opened, sink, sinkOpen, offsetsFile, sidecar,
                           wroteOffsets, failedIn, crashed, concurrent, obsVars, sortVars>>

\* sortMovie (lines 322-345): sort the table, then write it to offsets.txt,
\* one line per record.  The file is taken to open (the movie's directory
\* is writable); all movies lie in one directory.
sortMovie(w) ==
    /\ ~crashed
    /\ pc[w] = "sort"
    /\ \E s \in StdSort(mFrameData) :
         /\ mFrameData' = s
         /\ offsetsFile' = OffsetLines(s)
         /\ sidecar' = [sidecar EXCEPT ![w] = OffsetLines(s)]
         /\ mInfoText' = IF s = <<>> THEN mInfoText ELSE "Ordering"
    /\ mSorted' = TRUE
    /\ mFrameIndex' = 0
    /\ wroteOffsets' = [wroteOffsets EXCEPT ![w] = TRUE]
    /\ pc' = [pc EXCEPT ![w] = Continue("sort")]
    /\ UNCHANGED <<START_FRAME, mMoviePath, mMovie, mSaved, mFrameSurface, i, iter,
                   opened, sink, sinkOpen, failedIn, crashed, concurrent, obsVars, sortVars>>

\* saveMovie, lines 353-371: return when nothing is sorted, else create
\* the MovieWriter on output.mov.
saveMovie(w) ==
    /\ ~crashed
    /\ pc[w] = "save"
    /\ IF ~mSorted
       THEN /\ pc' = [pc EXCEPT ![w] = "done"]
            /\ UNCHANGED <<START_FRAME, mMoviePath, mMovie, mFrameData, mFrameIndex,
                           mSorted, mSaved, mInfoText, mFrameSurface, i, iter,
                           opened, sink, sinkOpen, offsetsFile, sidecar,
                           wroteOffsets, failedIn, crashed, concurrent, obsVars, sortVars>>
       ELSE IF mMovie = Null THEN Crash
       ELSE /\ \E ok \in BOOLEAN :
                 IF ok
                 THEN /\ sinkOpen' = [sinkOpen EXCEPT ![w] = TRUE]
                      /\ sink' = [sink EXCEPT ![w] = <<>>]
                      /\ iter' = [iter EXCEPT ![w] = 0]
                      /\ pc' = [pc EXCEPT ![w] = Continue("save")]
                      /\ UNCHANGED <<mMovie, failedIn>>
                 ELSE /\ Catch(w)
                      /\ UNCHANGED <<sinkOpen, sink, iter>>
            /\ UNCHANGED <<START_FRAME, mMoviePath, mFrameData, mFrameIndex, mSorted,
                           mSaved, mInfoText, mFrameSurface, i, opened, offsetsFile,
                           sidecar, wroteOffsets, crashed, concurrent, obsVars, sortVars>>

\* One pass of the loop of saveMovie (lines 372-391): seek to the record's
\* frame, fetch it, add it to the writer.  The iterator is a position in
\* the vector as it is now.  fail names the adapter call that throws.
addFrame(w) ==
    /\ ~crashed
    /\ pc[w] = "loop2"
    /\ iter[w] < Len(mFrameData)
    /\ IF mMovie = Null THEN Crash
       ELSE /\ mInfoText' = "Saving"
            /\ \E fail \in {"none", "seekToFrame", "addFrame"} :
                 LET index == mFrameData[iter[w] + 1].mIndex
                     brightness == mFrameData[iter[w] + 1].mBrightness
                     surface == [path |-> mMovie.path, frame |-> ClampFrame(index)]
                 IN  CASE fail = "seekToFrame" ->
                            /\ Catch(w)
                            /\ UNCHANGED <<mFrameSurface, sink, iter>>
                       [] fail = "addFrame" ->
                            /\ mFrameSurface' = surface
                            /\ Catch(w)
                            /\ UNCHANGED <<sink, iter>>
                       [] OTHER ->
                            /\ mMovie' = [mMovie EXCEPT !.frame = ClampFrame(index)]
                            /\ mFrameSurface' = surface
                            /\ sink' = [sink EXCEPT ![w] =
                                          Append(sink[w], [mIndex |-> index,
                                                           mBrightness |-> brightness,
                                                           surface |-> surface])]
                            /\ iter' = [iter EXCEPT ![w] = iter[w] + 1]
                            /\ UNCHANGED <<pc, failedIn>>
            /\ UNCHANGED <<START_FRAME, mMoviePath, mFrameData, mFrameIndex, mSorted,
                           mSaved, i, opened, sinkOpen, offsetsFile, sidecar,
                           wroteOffsets, crashed, concurrent, obsVars, sortVars>>

\* The loop of saveMovie ends; lines 393-396 finish the movie.
finishMovie(w) ==
    /\ ~crashed
    /\ pc[w] = "loop2"
    /\ ~(iter[w] < Len(mFrameData))
    /\ \E ok \in BOOLEAN :
         IF ok
         THEN /\ mSaved' = TRUE
              /\ mInfoText' = "Export complete."
              /\ pc' = [pc EXCEPT ![w] = Continue("loop2")]
              /\ UNCHANGED <<mMovie, failedIn>>
         ELSE /\ Catch(w)
              /\ UNCHANGED <<mSaved, mInfoText>>
    /\ UNCHANGED <<START_FRAME, mMoviePath, mFrameData, mFrameIndex, mSorted,
                   mFrameSurface, i, iter, opened, sink, sinkOpen, offsetsFile,
                   sidecar, wroteOffsets, crashed, concurrent, obsVars, sortVars>>

Next ==
    \/ \E p \in Paths : fileDrop(p)
    \/ \E w \in Jobs : loadMovieFile(w)
    \/ \E w \in Jobs : processAllFrames(w)
    \/ \E w \in Jobs : processNextFrame(w)
    \/ \E w \in Jobs : endProcessAllFrames(w)
    \/ \E w \in Jobs : sortMovie(w)
    \/ \E w \in Jobs : saveMovie(w)
    \/ \E w \in Jobs : addFrame(w)
    \/ \E w \in Jobs : finishMovie(w)

Spec == Init /\ [][Next]_vars

\* ------------------------------------------- one job and the main thread
\* The paths of the movies above and of one whose first frame has no area.
AllPaths == 1..(NumPaths + 1)

\* The first file dropped on the window.
firstFileDrop(p) ==
    /\ \A w \in Jobs : pc[w] = "idle"
    /\ fileDrop(p)

\* The thread of job w is about to store mInfoText, mFrameSurface or mSaved:
\* the sprintf of line 179, the assignment of line 267 with the sprintf of
\* line 249, the sprintf of line 336, those of lines 379 and 389, or lines
\* 394-395.
AtStore(w) ==
    \/ pc[w] = "open"
    \/ pc[w] = "loop1" /\ mMovie # Null /\ i[w] < getNumFrames - START_FRAME
    \/ pc[w] = "sort" /\ mFrameData # <<>>
    \/ pc[w] = "loop2"

\* The thread of job w has begun such a store and not yet completed the
\* step that holds it.  No lock is taken: there is none in the class.
beginStore(w) ==
    /\ ~crashed
    /\ AtStore(w)
    /\ storing # <<w, pc[w], i[w], iter[w]>>
    /\ storing' = <<w, pc[w], i[w], iter[w]>>
    /\ UNCHANGED <<appVars, shown, cancel, loadVars, sortVars>>

\* Some thread is in the middle of a store.
InStore ==
    \E w \in Jobs : Running(w) /\ storing = <<w, pc[w], i[w], iter[w]>>

\* draw() (lines 417-432), on the main thread: reads mFrameSurface, mSaved
\* and mInfoText, whatever the job threads are doing.
draw ==
    /\ ~crashed
    /\ shown' = [text |-> mInfoText, surface |-> mFrameSurface, saved |-> mSaved,
                 duringStore |-> InStore]
    /\ UNCHANGED <<appVars, storing, cancel, loadVars, sortVars>>

\* Frames job w has measured and added so far.
FramesDone(w) == i[w] + Len(sink[w])

\* The user asks for the job in pass 1 or pass 2 to be cancelled.  The
\* program has no member, handler or flag for it: the request changes
\* nothing a job thread reads.
requestCancel(w) ==
    /\ ~crashed
    /\ cancel.job = 0
    /\ pc[w] \in {"loop1", "loop2"}
    /\ cancel' = [job |-> w, done |-> FramesDone(w)]
    /\ UNCHANGED <<appVars, storing, shown, loadVars, sortVars>>

NextSingle ==
    \/ \E p \in AllPaths : firstFileDrop(p)
    \/ \E w \in Jobs : loadMovieFile(w)
    \/ \E w \in Jobs : processAllFrames(w)
    \/ \E w \in Jobs : processNextFrame(w)
    \/ \E w \in Jobs : endProcessAllFrames(w)
    \/ \E w \in Jobs : sortMovie(w)
    \/ \E w \in Jobs : saveMovie(w)
    \/ \E w \in Jobs : addFrame(w)
    \/ \E w \in Jobs : finishMovie(w)
    \/ \E w \in Jobs : beginStore(w)
    \/ draw
    \/ \E w \in Jobs : requestCancel(w)

SpecSingle == Init /\ [][NextSingle]_vars

\* ------------------------------------------- reading offsets.txt back
\* The lines a file can hold.  A record line is "<int>,<decimal>"; an int
\* line holds an integer and nothing else; a text line starts with a
\* character that is neither a digit, a sign nor white space.
FileLines ==
    {[kind |-> "record", offset |-> 0, brightness |-> 501961],
     [kind |-> "record", offset |-> 1, brightness |-> 1000000],
     [kind |-> "int", offset |-> 2, brightness |-> 0],
     [kind |-> "text", offset |-> 0, brightness |-> 0]}

Files == UNION {[1..n -> FileLines] : n \in 0..MaxFileLen}

\* Values the locals offset and brightness may hold before anything is
\* assigned to them: they are not initialised (lines 306-307).
UninitInts == {0, 77}
UninitFloats == {0, NaN}

InitLoad ==
    /\ START_FRAME = 0
    /\ setup
    /\ ObserverIdle
    /\ SortIdle
    /\ fd \in Files
    /\ fpos = 0
    /\ loadOffset \in UninitInts
    /\ loadBrightness \in UninitFloats
    /\ lpc = "read"

\* One pass of the loop of loadBrightnessFile (lines 309-313): fscanf does
\* not return EOF, and a record is pushed from the two locals.  On a
\* record line fscanf assigns both and returns 2; on an int line it assigns
\* offset, fails at the missing comma and returns 1 (the rest of the line
\* is white space, skipped by the next call); on a text line it assigns
\* nothing, consumes nothing and returns 0.
fscanfRecord ==
    /\ lpc = "read"
    /\ fpos < Len(fd)
    /\ Len(mFrameData) < MaxLoaded
    /\ LET line == fd[fpos + 1]
       IN  /\ loadOffset' = IF line.kind = "text" THEN loadOffset ELSE line.offset
           /\ loadBrightness' = IF line.kind = "record" THEN ScanF(line.brightness)
                                                        ELSE loadBrightness
           /\ fpos' = IF line.kind = "text" THEN fpos ELSE fpos + 1
    /\ mFrameData' = Append(mFrameData, FrameData(loadOffset', loadBrightness'))
    /\ UNCHANGED <<START_FRAME, mMoviePath, mMovie, mFrameIndex, mSorted, mSaved,
                   mInfoText, mFrameSurface, pc, i, iter, opened, sink, sinkOpen,
                   offsetsFile, sidecar, wroteOffsets, failedIn, crashed,
                   concurrent, storing, shown, cancel, fd, lpc, sortVars>>

\* fscanf returns EOF at the end of the file: the loop ends, line 314
\* closes the file.
fscanfEOF ==
    /\ lpc = "read"
    /\ fpos = Len(fd)
    /\ lpc' = "closed"
    /\ UNCHANGED <<appVars, storing, shown, cancel, fd, fpos, loadOffset,
                   loadBrightness, sortVars>>

NextLoad == fscanfRecord \/ fscanfEOF

SpecLoad == InitLoad /\ [][NextLoad]_vars

\* ------------------------------------------------ the sort on its own
\* Brightness values the tables are drawn from: 0.495, 0.501, 0.5049999,
\* 0.505, 0.509 (around the bucket boundaries 0.495 and 0.505).
BrightnessDomain == {4950000, 5010000, 5049999, 5050000, 5090000}

\* Tables as pass 1 leaves them: indices 0, 1, ..., n-1 in order.
Pass1Tables ==
    UNION {{[k \in 1..n |-> FrameData(k - 1, b[k])] : b \in [1..n -> BrightnessDomain]}
           : n \in 0..MaxLen}

InitSort ==
    /\ START_FRAME = 0
    /\ setup
    /\ ObserverIdle
    /\ LoadIdle
    /\ table \in Pass1Tables
    /\ sorted = <<>>
    /\ file = <<>>
    /\ loaded = <<>>
    /\ resorted = <<>>
    /\ step = "start"

SortTable ==
    /\ step = "start"
    /\ sorted' \in StdSort(table)
    /\ step' = "sorted"
    /\ UNCHANGED <<appVars, obsVars, table, file, loaded, resorted>>

WriteOffsets ==
    /\ step = "sorted"
    /\ file' = OffsetLines(sorted)
    /\ step' = "written"
    /\ UNCHANGED <<appVars, obsVars, table, sorted, loaded, resorted>>

LoadOffsets ==
    /\ step = "written"
    /\ loaded' = LoadedRecords(file)
    /\ step' = "loaded"
    /\ UNCHANGED <<appVars, obsVars, table, sorted, file, resorted>>

SortLoaded ==
    /\ step = "loaded"
    /\ resorted' \in StdSort(loaded)
    /\ step' = "resorted"
    /\ UNCHANGED <<appVars, obsVars, table, sorted, file, loaded>>

NextSort == SortTable \/ WriteOffsets \/ LoadOffsets \/ SortLoaded

SpecSort == InitSort /\ [][NextSort]_vars


\* ---------------------------------------------------------------- claims
\* The bucket of a brightness as the specification defines it:
\* round(brightness / 0.01), halves upwards.
BucketOf(brightness) == (brightness * 100 + BrightnessUnits \div 2) \div BrightnessUnits

\* Number of positions of the sequence s that hold x.
Count(s, x) == Cardinality({k \in 1..Len(s) : s[k] = x})

\* s and t hold the same elements, each as often.
SameMultiset(s, t) ==
    /\ Len(s) = Len(t)
    /\ \A k \in 1..Len(s) : Count(s, s[k]) = Count(t, s[k])

\* The frames lo, lo+1, ..., hi-1 in order (empty when hi <= lo).
FrameRange(lo, hi) == [k \in 1..(IF hi > lo THEN hi - lo ELSE 0) |-> lo + k - 1]

\* Frame count of the movie job w opened.
NumFramesOf(w) == Len(Movie(opened[w]))

\* C1: a job that reaches completion, in a process where no file was dropped
\* while a thread was running, has added to its sink each of the frames
\* START_FRAME .. N-1 exactly once and nothing else.
C1_SinkIsPermutation ==
    \A w \in Jobs :
        (pc[w] = "done" /\ ~concurrent) =>
            SameMultiset([k \in 1..Len(sink[w]) |-> sink[w][k].mIndex],
                         FrameRange(START_FRAME, NumFramesOf(w)))

TieBreakTable ==
    <<FrameData(0, 5010000), FrameData(1, 5090000),
      FrameData(2, 4950000), FrameData(3, 5050000)>>

\* C3 as stated: all four frames fall into bucket 0.50 and the sorted order
\* is the source order 0, 1, 2, 3.
C3_Original ==
    (step = "sorted" /\ table = TieBreakTable) =>
        /\ \A k \in 1..4 : BucketOf(table[k].mBrightness) = 50
        /\ Indices(sorted) = <<0, 1, 2, 3>>

\* C3, amended: frames 0 and 2 (0.501, 0.495) fall into bucket 0.50, frames
\* 1 and 3 (0.509, 0.505) into bucket 0.51, and the sorted order is
\* 0, 2, 1, 3.
C3_TieBreakOrder ==
    (step = "sorted" /\ table = TieBreakTable) =>
        /\ Round(table[1].mBrightness, ROUND_TO) = 50
        /\ Round(table[3].mBrightness, ROUND_TO) = 50
        /\ Round(table[2].mBrightness, ROUND_TO) = 51
        /\ Round(table[4].mBrightness, ROUND_TO) = 51
        /\ Indices(sorted) = <<0, 2, 1, 3>>

C3_Witness == step = "sorted" /\ table = TieBreakTable /\ Len(sorted) = 4

\* C4: when pass 1 has completed without failure, in a process where no file
\* was dropped while a thread was running, and START_FRAME <= N, the table
\* holds exactly the records of frames START_FRAME .. N-1, in that order.
C4_TableAfterPass1 ==
    \A w \in Jobs :
        (pc[w] = "sort" /\ ~concurrent /\ START_FRAME <= NumFramesOf(w)) =>
            Indices(mFrameData) = FrameRange(START_FRAME, NumFramesOf(w))

\* s is an initial part of t.
IsPrefix(s, t) == Len(s) <= Len(t) /\ \A k \in 1..Len(s) : s[k] = t[k]

\* C5: when a job's Sort phase has ended, offsets.txt holds one line per
\* record of the table, in the table's order, and the frames the job adds to
\* its sink in pass 2 follow the sequence of source indices of the lines it
\* wrote, all of them once it is done.
C5_SinkFollowsSidecar ==
    [][\A w \in Jobs :
         LET written == [k \in 1..Len(sink'[w]) |-> sink'[w][k].mIndex]
             lines   == [k \in 1..Len(sidecar'[w]) |-> sidecar'[w][k].offset]
         IN  /\ (pc[w] = "sort" /\ pc'[w] = "save") =>
                    /\ offsetsFile' = OffsetLines(mFrameData')
                    /\ sidecar'[w] = offsetsFile'
             /\ sinkOpen'[w] => IsPrefix(written, lines)
             /\ pc'[w] = "done" => written = lines]_vars

\* C6: the table read back from offsets.txt and sorted again has the source
\* indices in the sequence that was written.
C6_RoundTrip ==
    step = "resorted" => Indices(resorted) = Indices(sorted)

\* Rank of a phase in the order Idle, Loading, Analyzing, Sorting, Writing,
\* Done.
PhaseRank(ph) ==
    CASE ph = "Idle" -> 0
      [] ph = "Loading" -> 1
      [] ph = "Analyzing" -> 2
      [] ph = "Sorting" -> 3
      [] ph = "Writing" -> 4
      [] ph = "Done" -> 5
      [] OTHER -> 6

\* C7: every step leaves a job in its phase, moves it to the next phase of
\* the order Loading, Analyzing, Sorting, Writing, Done, or moves it to
\* Failed; a job that is Done or Failed stays so.
C7_PhaseOrder ==
    [][\A w \in Jobs :
         LET a == Phase(pc[w])
             b == Phase(pc'[w])
         IN  \/ a = b
             \/ a \notin {"Done", "Failed"} /\ b # "Failed"
                  /\ PhaseRank(b) = PhaseRank(a) + 1
             \/ a \notin {"Idle", "Done", "Failed"} /\ b = "Failed"]_vars

\* A job has gone through all the phases while another has failed.
C7_Witness ==
    \E w, v \in Jobs : pc[w] = "done" /\ Len(sink[w]) > 0 /\ pc[v] = "failed"

\* C8: at most one job is active at any time.
C8_SingleActiveJob ==
    Cardinality({w \in Jobs : Running(w)}) <= 1

\* C9: a job whose adapter call fails during pass 1 becomes Failed with the
\* movie released, having written neither offsets.txt nor output.mov; from
\* then on it stays Failed and writes neither file.
C9_Pass1Failure ==
    [][\A w \in Jobs :
         /\ (Phase(pc[w]) = "Analyzing" /\ failedIn'[w] # "none") =>
               /\ pc'[w] = "failed"
               /\ failedIn'[w] = "Analyzing"
               /\ mMovie' = Null
               /\ ~wroteOffsets'[w] /\ ~sinkOpen'[w] /\ sink'[w] = <<>>
         /\ failedIn[w] = "Analyzing" =>
               /\ pc'[w] = "failed"
               /\ ~wroteOffsets'[w] /\ ~sinkOpen'[w] /\ sink'[w] = <<>>
               /\ sidecar'[w] = <<>>]_vars

\* A job has failed in pass 1 after measuring a frame.
C9_Witness ==
    \E w \in Jobs : failedIn[w] = "Analyzing" /\ pc[w] = "failed" /\ mFrameData # <<>>

\* C10: once every job started so far has failed in pass 1 (or on opening
\* its movie), the table holds no record.
C10_PartialTableDiscarded ==
    (/\ \A w \in Jobs : pc[w] \in {"idle", "failed"}
     /\ \A w \in Jobs : failedIn[w] \in {"none", "Loading", "Analyzing"})
        => mFrameData = <<>>

\* C11: a job whose adapter call fails during pass 2 becomes Failed without
\* setting mSaved and without adding the frame; offsets.txt is left as it is
\* and, when no file was dropped during a run, holds one line per record of
\* the sorted table.  From then on the job stays Failed, and its sink and
\* its sidecar stay as they are.
C11_Pass2Failure ==
    [][\A w \in Jobs :
         /\ (Phase(pc[w]) = "Writing" /\ failedIn[w] = "none"
                /\ failedIn'[w] # "none") =>
               /\ pc'[w] = "failed"
               /\ failedIn'[w] = "Writing"
               /\ mSaved' = mSaved
               /\ sink'[w] = sink[w]
               /\ sinkOpen'[w] = sinkOpen[w]
               /\ wroteOffsets'[w]
               /\ offsetsFile' = offsetsFile
               /\ ~concurrent => offsetsFile' = OffsetLines(mFrameData')
         /\ failedIn[w] = "Writing" =>
               /\ pc'[w] = "failed"
               /\ sink'[w] = sink[w]
               /\ sinkOpen'[w] = sinkOpen[w]
               /\ sidecar'[w] = sidecar[w]]_vars

\* A job has failed in pass 2 with some, not all, frames in its sink.
C11_Witness ==
    \E w \in Jobs :
        /\ failedIn[w] = "Writing" /\ pc[w] = "failed"
        /\ Len(sink[w]) > 0 /\ Len(sink[w]) < Len(sidecar[w])

\* The texts mInfoText holds while a phase is in progress.
InProgressTexts == {"Opening file...", "Processing", "Ordering", "Saving"}

\* C12: once every job started so far has aborted, the progress string the
\* observer reads is not the in-progress message of a phase.
C12_FailureSurfaced ==
    (/\ \E w \in Jobs : pc[w] = "failed"
     /\ \A w \in Jobs : pc[w] \in {"idle", "failed"})
        => mInfoText \notin InProgressTexts

\* C13: a job that has entered Failed takes no further step: its position,
\* its counters, its sink and its sidecar stay as they are; and while no
\* other job is running the progress string, the table and the frame
\* surface are not written.
C13_NothingAfterFailed ==
    [][/\ \A w \in Jobs :
            failedIn[w] # "none" =>
               /\ pc'[w] = pc[w] /\ pc[w] = "failed"
               /\ i'[w] = i[w] /\ iter'[w] = iter[w]
               /\ sink'[w] = sink[w] /\ sidecar'[w] = sidecar[w]
       /\ (\A w \in Jobs : failedIn[w] # "none" \/ ~Running(w)) =>
               /\ mInfoText' = mInfoText
               /\ mFrameData' = mFrameData
               /\ mFrameSurface' = mFrameSurface]_vars

\* A job has failed and a job started after it has written frames.
C13_Witness ==
    \E w, v \in Jobs :
        /\ w < v /\ pc[w] = "failed" /\ failedIn[w] # "none"
        /\ Len(sink[v]) > 0

\* Frames job w has to process: N - START_FRAME, none when that is negative.
FramesToProcess(w) ==
    IF NumFramesOf(w) > START_FRAME THEN NumFramesOf(w) - START_FRAME ELSE 0

\* C18, its bounds: in a process where no file was dropped while a thread was
\* running, a job measures at most N - START_FRAME frames in pass 1 and adds
\* at most as many frames in pass 2.
C18_BoundedWork ==
    \A w \in Jobs :
        (opened[w] # 0 /\ ~concurrent) =>
            /\ i[w] <= FramesToProcess(w)
            /\ Len(sink[w]) <= FramesToProcess(w)

\* C20: in a process where no file was dropped while a thread was running,
\* the frame about to be measured in pass 1 is the frame mFrameIndex, and
\* each frame pass 2 has added is the frame at its record's source index,
\* with the brightness the record holds.
C20_CounterAndCursorInStep ==
    \A w \in Jobs :
        ~concurrent =>
            /\ (pc[w] = "loop1" /\ mMovie # Null /\ i[w] < FramesToProcess(w)) =>
                   mMovie.frame = mFrameIndex
            /\ \A k \in 1..Len(sink[w]) :
                   /\ sink[w][k].surface.frame = sink[w][k].mIndex
                   /\ MeanBrightness(Pixels(sink[w][k].surface)) = sink[w][k].mBrightness

\* C19: on the records of a table with pairwise distinct indices and finite
\* brightnesses, FrameBrightnessSort is irreflexive, asymmetric, transitive
\* and orders any two distinct records; and std::sort of any arrangement of
\* the table has one possible result, the same for every arrangement.
C19_StrictTotalOrder ==
    step = "sorted" =>
        LET records == {table[k] : k \in 1..Len(table)}
        IN  /\ \A a \in records : ~FrameBrightnessSort(a, a)
            /\ \A a, b \in records :
                   FrameBrightnessSort(a, b) => ~FrameBrightnessSort(b, a)
            /\ \A a, b, c \in records :
                   (FrameBrightnessSort(a, b) /\ FrameBrightnessSort(b, c))
                       => FrameBrightnessSort(a, c)
            /\ \A a, b \in records :
                   a # b => (FrameBrightnessSort(a, b) \/ FrameBrightnessSort(b, a))
            /\ \A t \in Arrangements(table) : StdSort(t) = {sorted}

\* A full table was sorted that holds two records of one bucket with
\* different brightnesses, and the sort moved records.
C19_Witness ==
    /\ step = "sorted" /\ Len(table) = MaxLen /\ sorted # table
    /\ \E j, k \in 1..Len(table) :
           /\ j < k /\ table[j].mBrightness > table[k].mBrightness
           /\ Round(table[j].mBrightness, ROUND_TO) = Round(table[k].mBrightness, ROUND_TO)

\* C16: a surface of no area is fatal to the job: no record is appended for
\* it, so the table never holds a record without a brightness, and no job
\* writes such a record to its sidecar or adds a frame for one to its sink.
C16_EmptySurfaceIsFatal ==
    /\ \A k \in 1..Len(mFrameData) : mFrameData[k].mBrightness # NaN
    /\ \A w \in Jobs :
           /\ \A k \in 1..Len(sidecar[w]) : sidecar[w][k].brightness # NaN
           /\ \A k \in 1..Len(sink[w]) : sink[w][k].mBrightness # NaN

\* C14: once cancellation has been asked for during pass 1 or pass 2, the
\* job measures or adds at most one more frame and never reaches Done.
C14_CancelWithinOneFrame ==
    cancel.job # 0 =>
        /\ FramesDone(cancel.job) <= cancel.done + 1
        /\ pc[cancel.job] # "done"

\* C15: draw() never reads mInfoText, mFrameSurface or mSaved while a job
\* thread is in the middle of storing one of them.
C15_NoReadDuringStore == ~shown.duringStore

\* The lines of the file before its first malformed line.
WellFormedPrefix(lines) ==
    LET bad == {k \in 1..Len(lines) : lines[k].kind # "record"}
    IN  IF bad = {} THEN lines
        ELSE SubSeq(lines, 1, (CHOOSE k \in bad : \A j \in bad : k <= j) - 1)

\* C17: reading a file never appends more records than the well-formed
\* lines before the first malformed one, each record is the one its line
\* holds, and the read does not end as if the file were sound when a line is
\* malformed.
C17_CorruptOffsets ==
    /\ Len(mFrameData) <= Len(WellFormedPrefix(fd))
    /\ \A k \in 1..Len(mFrameData) :
           mFrameData[k] = LoadedRecords(WellFormedPrefix(fd))[k]
    /\ lpc = "closed" => WellFormedPrefix(fd) = fd

====
